---- MODULE Spec2Model ----
(***************************************************************************)
(* Mat4 (src/src/mat4.hpp): a 4x4 row-major matrix of IEEE-754 binary32    *)
(* values with constructors, in-place mutators and pure operators.         *)
(***************************************************************************)
EXTENDS Integers, Sequences, FiniteSets, TLC

(***************************************************************************)
(* float.  A finite binary32 value is m * 2^e, kept canonical: m is odd    *)
(* with |m| < 2^24, or m = 0 and e = 0.  Results are rounded to nearest,   *)
(* ties to even, as the hardware does.  Exponent range (overflow to        *)
(* infinity, subnormals) is not modelled: the values used stay far inside. *)
(***************************************************************************)
MantBits == 24

Pow2(n) == 2 ^ n

Abs(x) == IF x < 0 THEN -x ELSE x

Sgn(x) == IF x < 0 THEN -1 ELSE 1

FZero == [m |-> 0, e |-> 0]

RECURSIVE Norm(_, _)
Norm(m, e) ==
    IF m = 0 THEN FZero
    ELSE IF m % 4096 = 0 THEN Norm(m \div 4096, e + 12)
    ELSE IF m % 16 = 0 THEN Norm(m \div 16, e + 4)
    ELSE IF m % 2 = 0 THEN Norm(m \div 2, e + 1)
    ELSE [m |-> m, e |-> e]

\* Number of significant bits of n >= 0.
RECURSIVE BitLen(_)
BitLen(n) ==
    IF n >= 256 THEN 8 + BitLen(n \div 256)
    ELSE IF n >= 16 THEN (IF n >= 64 THEN (IF n >= 128 THEN 8 ELSE 7)
                                     ELSE (IF n >= 32 THEN 6 ELSE 5))
    ELSE IF n >= 4 THEN (IF n >= 8 THEN 4 ELSE 3)
    ELSE IF n >= 2 THEN 2 ELSE n

\* m * 2^e rounded to 24 significant bits, nearest, ties to even.
RoundF(m, e) ==
    LET a  == Abs(m)
        bl == BitLen(a)
    IN  IF bl <= MantBits THEN Norm(m, e)
        ELSE LET s    == bl - MantBits
                 q    == a \div Pow2(s)
                 r    == a % Pow2(s)
                 half == Pow2(s - 1)
                 up   == r > half \/ (r = half /\ q % 2 = 1)
             IN  Norm(Sgn(m) * (IF up THEN q + 1 ELSE q), e + s)

\* (float) n for an int n.
FromInt(n) == RoundF(n, 0)

FNeg(a) == [m |-> -a.m, e |-> a.e]

\* floor(a / 2^s) with the discarded bits OR-ed into the lowest bit (sticky).
ShiftSticky(a, s) ==
    IF s >= 31 THEN 1
    ELSE LET q == a \div Pow2(s)
         IN  IF a % Pow2(s) = 0 \/ q % 2 = 1 THEN q ELSE q + 1

\* a + b in binary32.  When both operands fit a common 30-bit window the
\* sum is formed exactly and rounded once; otherwise the operand with the
\* smaller exponent is cut to three guard bits, the last one sticky.
FAdd(a, b) ==
    IF a.m = 0 THEN b
    ELSE IF b.m = 0 THEN a
    ELSE LET la == BitLen(Abs(a.m))
             lb == BitLen(Abs(b.m))
             lo == IF a.e <= b.e THEN a.e ELSE b.e
         IN  IF la + (a.e - lo) <= 29 /\ lb + (b.e - lo) <= 29
             THEN RoundF(a.m * Pow2(a.e - lo) + b.m * Pow2(b.e - lo), lo)
             ELSE LET ka == MantBits - la
                      kb == MantBits - lb
                      ea == a.e - ka
                      eb == b.e - kb
                      x  == IF ea >= eb THEN a ELSE b
                      y  == IF ea >= eb THEN b ELSE a
                      ex == IF ea >= eb THEN ea ELSE eb
                      kx == IF ea >= eb THEN ka ELSE kb
                      ky == IF ea >= eb THEN kb ELSE ka
                      d  == IF ea >= eb THEN ea - eb ELSE eb - ea
                      X  == x.m * Pow2(kx + 3)
                      Ym == Abs(y.m) * Pow2(ky)
                      Y  == IF d <= 3 THEN Ym * Pow2(3 - d)
                            ELSE ShiftSticky(Ym, d - 3)
                  IN  RoundF(X + Sgn(y.m) * Y, ex - 3)

FSub(a, b) == FAdd(a, FNeg(b))

\* a * b in binary32.  A product by a power of two, or of two mantissas
\* below 2^12, is exact (and odd); otherwise the 48-bit product is formed in
\* two 24-bit halves and cut to 26 bits, the last one sticky, before rounding.
FMul(a, b) ==
    IF a.m = 0 \/ b.m = 0 THEN FZero
    ELSE IF Abs(a.m) = 1 \/ Abs(b.m) = 1 \/ (Abs(a.m) < 4096 /\ Abs(b.m) < 4096)
    THEN [m |-> a.m * b.m, e |-> a.e + b.e]
    ELSE LET x    == Abs(a.m)
             y    == Abs(b.m)
             sg   == Sgn(a.m) * Sgn(b.m)
             x1   == x \div 4096
             x0   == x % 4096
             y1   == y \div 4096
             y0   == y % 4096
             mid  == x1 * y0 + x0 * y1
             low  == x0 * y0 + (mid % 4096) * 4096
             lo   == low % 16777216
             hi   == x1 * y1 + (mid \div 4096) + (low \div 16777216)
             hb   == BitLen(hi)
         IN  IF hb <= 6 THEN RoundF(sg * (hi * 16777216 + lo), a.e + b.e)
             ELSE LET s == hb - 2
                      q == hi * Pow2(MantBits - s) + (lo \div Pow2(s))
                      t == IF lo % Pow2(s) = 0 \/ q % 2 = 1 THEN q ELSE q + 1
                  IN  RoundF(sg * t, a.e + b.e + s)

\* a / b in binary32 for a divisor that is a power of two (the only divisor
\* the code uses is (float) RAND_MAX = 2^31): exact.
FDiv(a, b) == IF a.m = 0 THEN FZero ELSE [m |-> a.m * b.m, e |-> a.e - b.e]

(***************************************************************************)
(* Mat4 storage: nR x nC values in row-major order, element (i, j) at      *)
(* offset i * nC + j.                                                      *)
(***************************************************************************)
nR == 4

nC == 4

RAND_MAX == 2147483647

MaxVal == 2

MaxSteps == 2

Rows == 0 .. (nR - 1)

Cols == 0 .. (nC - 1)

Offsets == 0 .. (nR * nC - 1)

\* The loop nest "for i in [0, nR) for j in [0, nC)", in execution order.
LoopCells == [n \in 1 .. (nR * nC) |-> <<(n - 1) \div nC, (n - 1) % nC>>]

\* The vector after the loop nest has run its first n iterations on a vector
\* that held base, each iteration (i, j) storing val(i, j) at offset tgt(i, j).
RECURSIVE LoopStoreN(_, _, _, _)
LoopStoreN(base, tgt(_, _), val(_, _), n) ==
    IF n = 0 THEN base
    ELSE LET before == LoopStoreN(base, tgt, val, n - 1)
             i      == LoopCells[n][1]
             j      == LoopCells[n][2]
         IN  [before EXCEPT ![tgt(i, j)] = val(i, j)]

LoopStore(base, tgt(_, _), val(_, _)) == LoopStoreN(base, tgt, val, nR * nC)

\* values.resize(nR * nC): sixteen value-initialised floats.
Resized == [o \in Offsets |-> FZero]

get(m, i, j) == m[i * nC + j]

setValues(m, i, j, k) == [m EXCEPT ![i * nC + j] = k]

setZerosValues(m) ==
    LoopStore(m, LAMBDA i, j : i * nC + j, LAMBDA i, j : FromInt(0))

setOnesValues(m) ==
    LoopStore(m, LAMBDA i, j : i * nC + j, LAMBDA i, j : FromInt(1))

\* Faulty setIdentity: the comparison i <= j in place of i == j.
setIdentityValuesUpper(m) ==
    LoopStore(m, LAMBDA i, j : i * nC + j,
              LAMBDA i, j : FromInt(IF i <= j THEN 1 ELSE 0))

setIdentityValues(m) ==
    LoopStore(m, LAMBDA i, j : i * nC + j,
              LAMBDA i, j : FromInt(IF i = j THEN 1 ELSE 0))

\* Mat4(enum INIT init).
Mat4Init(init) ==
    CASE init = "IDENTITY" -> setIdentityValues(Resized)
      [] init = "ONES"     -> setOnesValues(Resized)
      [] init = "ZEROS"    -> setZerosValues(Resized)
      [] OTHER             -> setIdentityValues(Resized)

\* (float) cos(angleInDegrees / 180 * M_PI) and (float) sin(angleInDegrees /
\* 180 * M_PI): the binary32 values the constructor stores, for the angles in
\* RotationAngles.
RotationAngles == {30, 45}

CosDegrees(angle) ==
    IF angle = 30 THEN [m |-> 14529495, e |-> -24]
    ELSE [m |-> 11863283, e |-> -24]

SinDegrees(angle) ==
    IF angle = 30 THEN [m |-> 1, e |-> -1]
    ELSE [m |-> 11863283, e |-> -24]

\* Mat4(const float angleInDegrees): rotation about the z axis.
Mat4Rotation(angle) ==
    [setIdentityValues(Resized) EXCEPT
        ![0] = CosDegrees(angle),
        ![1] = FNeg(SinDegrees(angle)),
        ![4] = SinDegrees(angle),
        ![5] = CosDegrees(angle)]

\* Faulty translation constructor: the components go to the bottom row.
Mat4TranslationBottomRow(t) ==
    [setIdentityValues(Resized) EXCEPT ![12] = t.x, ![13] = t.y, ![14] = t.z]

\* Mat4(const Vec3 translation).
Mat4Translation(t) ==
    [setIdentityValues(Resized) EXCEPT ![3] = t.x, ![7] = t.y, ![11] = t.z]

\* Mat4(scaleX, scaleY, scaleZ).
Mat4Scale(sx, sy, sz) ==
    [setIdentityValues(Resized) EXCEPT ![0] = sx, ![5] = sy, ![10] = sz]

\* Mat4(const Mat4 &m): an own vector, then the element loop.
Mat4Copy(m) ==
    LoopStore(Resized, LAMBDA i, j : i * nC + j, LAMBDA i, j : m[i * nC + j])

\* Faulty operator=: the source is read at (i, i) in place of (i, j).
AssignValuesIndexSlip(self, m) ==
    LoopStore(self, LAMBDA i, j : i * nC + j, LAMBDA i, j : m[i * nC + i])

\* operator=(Mat4 const &m) on an object holding self.
AssignValues(self, m) ==
    LoopStore(self, LAMBDA i, j : i * nC + j, LAMBDA i, j : m[i * nC + j])

(***************************************************************************)
(* rand().  The process-wide generator is a collaborator whose state the   *)
(* class does not see: each draw is an input in 0 .. RAND_MAX.             *)
(***************************************************************************)
\* rand() returns any value in 0 .. RAND_MAX.  Seed1Stream are the first 64
\* values the C library's generator returns in a process that never calls
\* srand (seed 1), in order.
Seed1Stream ==
    <<1804289383, 846930886, 1681692777, 1714636915,
      1957747793, 424238335, 719885386, 1649760492,
      596516649, 1189641421, 1025202362, 1350490027,
      783368690, 1102520059, 2044897763, 1967513926,
      1365180540, 1540383426, 304089172, 1303455736,
      35005211, 521595368, 294702567, 1726956429,
      336465782, 861021530, 278722862, 233665123,
      2145174067, 468703135, 1101513929, 1801979802,
      1315634022, 635723058, 1369133069, 1125898167,
      1059961393, 2089018456, 628175011, 1656478042,
      1131176229, 1653377373, 859484421, 1914544919,
      608413784, 756898537, 1734575198, 1973594324,
      149798315, 2038664370, 1129566413, 184803526,
      412776091, 1424268980, 1911759956, 749241873,
      137806862, 42999170, 982906996, 135497281,
      511702305, 2084420925, 1937477084, 1827336327>>

\* The nR * nC values of that stream after the first pos.
StreamWindow(pos) == [n \in 1 .. nR * nC |-> Seed1Stream[pos + n]]

\* The draws w with the p-th one replaced by r.
WithDraw(w, p, r) == [w EXCEPT ![p] = r]

\* The draws a setUniform call can meet after pos earlier draws, that the
\* model chooses among: those of the seed-1 stream; those with the greatest
\* value drawn first; and those with the least value drawn sixth and a value
\* just below the greatest drawn last (a generator seeded otherwise).  The
\* recorded stream bounds the number of calls.
DrawWindows(pos) ==
    IF pos + nR * nC > Len(Seed1Stream) THEN {}
    ELSE {StreamWindow(pos),
          WithDraw(StreamWindow(pos), 1, RAND_MAX),
          WithDraw(WithDraw(StreamWindow(pos), 6, 0), nR * nC, RAND_MAX - 64)}

\* The value setUniform stores for the draw r.
UniformValue(r, low, high) ==
    LET randomNumber == FDiv(FromInt(r), FromInt(RAND_MAX))
    IN  FAdd(low, FMul(randomNumber, FSub(high, low)))

\* setUniform(low, high) when rand() returns draws: iteration (i, j) takes
\* the (i * nC + j)-th of them.
setUniformValues(m, low, high, draws) ==
    LoopStore(m, LAMBDA i, j : i * nC + j,
              LAMBDA i, j : UniformValue(draws[i * nC + j + 1], low, high))

(***************************************************************************)
(* Operators.  Each builds "Mat4 result" (the identity) and stores into it.*)
(***************************************************************************)
\* Faulty operator~: the store goes to (i, j) in place of (j, i).
TransposeNoSwap(m) ==
    LoopStore(Mat4Init("IDENTITY"), LAMBDA i, j : i * nC + j,
              LAMBDA i, j : m[i * nC + j])

Transpose(m) ==
    LoopStore(Mat4Init("IDENTITY"), LAMBDA i, j : j * nR + i,
              LAMBDA i, j : m[i * nC + j])

Add(a, b) ==
    LoopStore(Mat4Init("IDENTITY"), LAMBDA i, j : i * nC + j,
              LAMBDA i, j : FAdd(a[i * nC + j], b[i * nC + j]))

Sub(a, b) ==
    LoopStore(Mat4Init("IDENTITY"), LAMBDA i, j : i * nC + j,
              LAMBDA i, j : FSub(a[i * nC + j], b[i * nC + j]))

\* Faulty inner product: m is read at (j, k) in place of (k, j).
RECURSIVE ElementSumRowByRow(_, _, _, _, _)
ElementSumRowByRow(a, b, i, j, n) ==
    IF n = 0 THEN FromInt(0)
    ELSE FAdd(ElementSumRowByRow(a, b, i, j, n - 1),
              FMul(a[i * nC + (n - 1)], b[j * nC + (n - 1)]))

RECURSIVE ElementSum(_, _, _, _, _)
\* elementSum after the k loop has run for k = 0 .. n - 1.
ElementSum(a, b, i, j, n) ==
    IF n = 0 THEN FromInt(0)
    ELSE FAdd(ElementSum(a, b, i, j, n - 1),
              FMul(a[i * nC + (n - 1)], b[(n - 1) * nC + j]))

\* Faulty operator*: the operands are taken in the other order.
MatMulSwapped(a, b) ==
    LoopStore(Mat4Init("IDENTITY"), LAMBDA i, j : i * nC + j,
              LAMBDA i, j : ElementSum(b, a, i, j, nC))

MatMul(a, b) ==
    LoopStore(Mat4Init("IDENTITY"), LAMBDA i, j : i * nC + j,
              LAMBDA i, j : ElementSum(a, b, i, j, nC))

\* Faulty operator*(Vec3f): the translation column is added (a point
\* transform).
MulVecWithTranslation(m, v) ==
    [i \in 0 .. 2 |->
        FAdd(FAdd(FAdd(FMul(m[4 * i], v[0]), FMul(m[4 * i + 1], v[1])),
                  FMul(m[4 * i + 2], v[2])),
             m[4 * i + 3])]

\* operator*(Vec3f const &v): v is indexed 0 .. 2.
MulVec(m, v) ==
    [i \in 0 .. 2 |->
        FAdd(FAdd(FMul(m[4 * i], v[0]), FMul(m[4 * i + 1], v[1])),
             FMul(m[4 * i + 2], v[2]))]

Scale(m, value) ==
    LoopStore(Mat4Init("IDENTITY"), LAMBDA i, j : i * nC + j,
              LAMBDA i, j : FMul(m[i * nC + j], value))

Hadamard(a, b) ==
    LoopStore(Mat4Init("IDENTITY"), LAMBDA i, j : i * nC + j,
              LAMBDA i, j : FMul(a[i * nC + j], b[i * nC + j]))

\* Faulty dumpColumnWise: row-major offsets i * nC + j.
DumpStoresRowMajor(m) ==
    [n \in DOMAIN LoopCells |->
        LET i == LoopCells[n][1]
            j == LoopCells[n][2]
        IN  <<i * nC + j, m[i * nC + j]>>]

\* dumpColumnWise: the stores it makes, in order, as <<offset, value>>.
DumpStores(m) ==
    [n \in DOMAIN LoopCells |->
        LET i == LoopCells[n][1]
            j == LoopCells[n][2]
        IN  <<i + j * nR, m[i * nC + j]>>]

\* The caller's buffer after those stores (a later store to a slot wins).
DumpInto(buf, stores) ==
    [o \in DOMAIN buf |->
        LET hits == {n \in DOMAIN stores : stores[n][1] = o}
        IN  IF hits = {} THEN buf[o]
            ELSE stores[CHOOSE h \in hits : \A g \in hits : g <= h][2]]

TranslationVec3(m) == [x |-> m[3], y |-> m[7], z |-> m[11]]

(***************************************************************************)
(* Inputs.                                                                 *)
(***************************************************************************)
Vals == 0 .. MaxVal

\* The least and the greatest value.
Extremes == {0, MaxVal}

\* The range (low, high) given to setUniform among the other calls.
UniformRanges == {<<1, MaxVal>>}

\* 3-component inputs with pairwise distinct positions: the ramps
\* (a, a + 1, a + 2) taken modulo MaxVal + 1.
Ramps == {<<a, (a + 1) % (MaxVal + 1), (a + 2) % (MaxVal + 1)>> : a \in Vals}

Vec3Inputs == {[x |-> FromInt(r[1]), y |-> FromInt(r[2]), z |-> FromInt(r[3])] : r \in Ramps}

Vec3fInputs == {[k \in 0 .. 2 |-> FromInt(r[k + 1])] : r \in Ramps}

NoVec3 == [x |-> FZero, y |-> FZero, z |-> FZero]

NoObj == "-"

\* How an object came to be: the constructor (or copy, or operator) that made
\* it, with the Vec3 or the source object it was given.
Made(kind, t, from) == [kind |-> kind, t |-> t, from |-> from]

\* An off-diagonal cell, a cell of the translation column, a diagonal cell
\* and a cell of the bottom row.
SampleCells == {<<0, 1>>, <<1, 3>>, <<2, 2>>, <<3, 0>>}

\* Objects as a caller can have them before applying an operator: built by a
\* constructor, or default-built and then changed in one cell by set().
Constructed ==
    {[m |-> Mat4Init(init), made |-> Made(init, NoVec3, NoObj)] :
        init \in {"IDENTITY", "ONES", "ZEROS"}}
    \cup {[m |-> Mat4Translation(t), made |-> Made("translation", t, NoObj)] :
            t \in Vec3Inputs}
    \cup {[m |-> Mat4Scale(s.x, s.y, s.z), made |-> Made("scale", s, NoObj)] :
            s \in Vec3Inputs}
    \cup {[m |-> setValues(Mat4Init("IDENTITY"), c[1], c[2], FromInt(MaxVal)),
           made |-> Made("IDENTITY", NoVec3, NoObj)] : c \in SampleCells}

\* The transforms a caller composes: the constructed objects and rotations.
Transforms ==
    Constructed
    \cup {[m |-> Mat4Rotation(angle), made |-> Made("rotation", NoVec3, NoObj)] :
            angle \in RotationAngles}

(***************************************************************************)
(* State.  Three Mat4 objects: A and B are the operands, R receives what   *)
(* an operator returns (Mat4 R = A * B).                                   *)
(***************************************************************************)
Operands == {"A", "B"}

Objs == Operands \cup {"R"}

VARIABLES
    values,   \* values[x]: the std::vector<float> of object x
    vec,      \* the 3-vector the last call returned (NoVec: it returned none)
    array,    \* the 16-slot buffer the last call was handed (zeroed before it)
    stores,   \* the stores the last call made to that buffer, in order
    drawn,    \* the values rand() has returned so far, in order
    lastOp,   \* the last call and its arguments
    made,     \* made[x]: how object x came to be
    steps     \* calls made so far

vars == <<values, vec, array, stores, drawn, lastOp, made, steps>>

NoVec == [k \in 0 .. 2 |-> FZero]

Call(op, x, y, c, k, h, v) ==
    [op |-> op, x |-> x, y |-> y, c |-> c, k |-> k, h |-> h, v |-> v]

NoCell == <<0, 0>>

NoArray == [o \in Offsets |-> FZero]

InitCommon ==
    /\ vec = NoVec
    /\ array = NoArray
    /\ stores = <<>>
    /\ drawn = <<>>
    /\ lastOp = Call("init", NoObj, NoObj, NoCell, FZero, FZero, NoVec)
    /\ steps = 0

\* Mat4 A, B, R;
Init ==
    /\ values = [x \in Objs |-> Mat4Init("IDENTITY")]
    /\ made = [x \in Objs |-> Made("IDENTITY", NoVec3, NoObj)]
    /\ InitCommon

\* A and B built by any constructor, R by the default one.
InitAlgebra ==
    /\ \E a \in Constructed, b \in Constructed :
          /\ values = [A |-> a.m, B |-> b.m, R |-> Mat4Init("IDENTITY")]
          /\ made = [A |-> a.made, B |-> b.made,
                     R |-> Made("IDENTITY", NoVec3, NoObj)]
    /\ InitCommon

\* A and B are transforms, rotations included; R is default-built.
InitCompose ==
    /\ \E a \in Transforms, b \in Transforms :
          /\ values = [A |-> a.m, B |-> b.m, R |-> Mat4Init("IDENTITY")]
          /\ made = [A |-> a.made, B |-> b.made,
                     R |-> Made("IDENTITY", NoVec3, NoObj)]
    /\ InitCommon

Tick ==
    /\ steps < MaxSteps
    /\ steps' = steps + 1

\* A call that returns no vector and is handed no buffer.
NoOutputs ==
    /\ vec' = NoVec
    /\ array' = NoArray
    /\ stores' = <<>>

(***************************************************************************)
(* Mutators.                                                               *)
(***************************************************************************)
set(x, i, j, k) ==
    /\ Tick
    /\ values' = [values EXCEPT ![x] = setValues(values[x], i, j, k)]
    /\ lastOp' = Call("set", x, NoObj, <<i, j>>, k, FZero, NoVec)
    /\ NoOutputs
    /\ UNCHANGED <<drawn, made>>

setZeros(x) ==
    /\ Tick
    /\ values' = [values EXCEPT ![x] = setZerosValues(values[x])]
    /\ lastOp' = Call("setZeros", x, NoObj, NoCell, FZero, FZero, NoVec)
    /\ NoOutputs
    /\ UNCHANGED <<drawn, made>>

setOnes(x) ==
    /\ Tick
    /\ values' = [values EXCEPT ![x] = setOnesValues(values[x])]
    /\ lastOp' = Call("setOnes", x, NoObj, NoCell, FZero, FZero, NoVec)
    /\ NoOutputs
    /\ UNCHANGED <<drawn, made>>

setIdentity(x) ==
    /\ Tick
    /\ values' = [values EXCEPT ![x] = setIdentityValues(values[x])]
    /\ lastOp' = Call("setIdentity", x, NoObj, NoCell, FZero, FZero, NoVec)
    /\ NoOutputs
    /\ UNCHANGED <<drawn, made>>

setUniform(x, low, high, draws) ==
    /\ Tick
    /\ values' = [values EXCEPT ![x] = setUniformValues(values[x], low, high, draws)]
    /\ drawn' = drawn \o draws
    /\ lastOp' = Call("setUniform", x, NoObj, NoCell, low, high, NoVec)
    /\ NoOutputs
    /\ UNCHANGED made

\* Mat4 x(y): the object named x is built anew as a copy of y.
CopyConstruct(x, y) ==
    /\ Tick
    /\ values' = [values EXCEPT ![x] = Mat4Copy(values[y])]
    /\ made' = [made EXCEPT ![x] = Made("copy", NoVec3, y)]
    /\ lastOp' = Call("copy", x, y, NoCell, FZero, FZero, NoVec)
    /\ NoOutputs
    /\ UNCHANGED drawn

\* x = y;
Assign(x, y) ==
    /\ Tick
    /\ values' = [values EXCEPT ![x] = AssignValues(values[x], values[y])]
    /\ made' = [made EXCEPT ![x] = Made("assign", NoVec3, y)]
    /\ lastOp' = Call("assign", x, y, NoCell, FZero, FZero, NoVec)
    /\ NoOutputs
    /\ UNCHANGED drawn

(***************************************************************************)
(* Operators: Mat4 R = <operator on x (and y)>.                            *)
(***************************************************************************)
\* Faulty operator: the result is also stored into the left operand
\* (operator*= in place of operator*).
ReturnsInPlace(op, x, y, k, m) ==
    /\ Tick
    /\ values' = [values EXCEPT !["R"] = m, ![x] = m]
    /\ made' = [made EXCEPT !["R"] = Made(op, NoVec3, NoObj)]
    /\ lastOp' = Call(op, x, y, NoCell, k, FZero, NoVec)
    /\ NoOutputs
    /\ UNCHANGED drawn

Returns(op, x, y, k, m) ==
    /\ Tick
    /\ values' = [values EXCEPT !["R"] = m]
    /\ made' = [made EXCEPT !["R"] = Made(op, NoVec3, NoObj)]
    /\ lastOp' = Call(op, x, y, NoCell, k, FZero, NoVec)
    /\ NoOutputs
    /\ UNCHANGED drawn

OpTranspose(x) == Returns("transpose", x, NoObj, FZero, Transpose(values[x]))

OpAdd(x, y) == Returns("add", x, y, FZero, Add(values[x], values[y]))

OpSub(x, y) == Returns("sub", x, y, FZero, Sub(values[x], values[y]))

OpMul(x, y) == Returns("mul", x, y, FZero, MatMul(values[x], values[y]))

OpScale(x, k) == Returns("scale", x, NoObj, k, Scale(values[x], k))

OpHadamard(x, y) == Returns("hadamard", x, y, FZero, Hadamard(values[x], values[y]))

OpMulVec(x, v) ==
    /\ Tick
    /\ vec' = MulVec(values[x], v)
    /\ lastOp' = Call("mulvec", x, NoObj, NoCell, FZero, FZero, v)
    /\ array' = NoArray
    /\ stores' = <<>>
    /\ UNCHANGED <<values, drawn, made>>

dumpColumnWise(x) ==
    /\ Tick
    /\ stores' = DumpStores(values[x])
    /\ array' = DumpInto(NoArray, DumpStores(values[x]))
    /\ vec' = NoVec
    /\ lastOp' = Call("dump", x, NoObj, NoCell, FZero, FZero, NoVec)
    /\ UNCHANGED <<values, drawn, made>>

getTranslationVec3(x) ==
    /\ Tick
    /\ vec' = LET t == TranslationVec3(values[x])
              IN  [k \in 0 .. 2 |-> IF k = 0 THEN t.x ELSE IF k = 1 THEN t.y ELSE t.z]
    /\ lastOp' = Call("getTranslation", x, NoObj, NoCell, FZero, FZero, NoVec)
    /\ array' = NoArray
    /\ stores' = <<>>
    /\ UNCHANGED <<values, drawn, made>>

Next ==
    \/ \E x \in Objs, c \in SampleCells, k \in Extremes : set(x, c[1], c[2], FromInt(k))
    \/ \E x \in Objs : setZeros(x)
    \/ \E x \in Objs : setOnes(x)
    \/ \E x \in Objs : setIdentity(x)
    \/ \E x \in Objs, r \in UniformRanges, w \in DrawWindows(Len(drawn)) :
          r[1] < r[2] /\ setUniform(x, FromInt(r[1]), FromInt(r[2]), w)
    \/ \E x \in Objs, y \in Objs : x # y /\ CopyConstruct(x, y)
    \/ \E x \in Objs, y \in Objs : Assign(x, y)
    \/ \E x \in Operands : OpTranspose(x)
    \/ \E x \in Operands, y \in Operands : OpAdd(x, y)
    \/ \E x \in Operands, y \in Operands : OpSub(x, y)
    \/ \E x \in Operands, y \in Operands : OpMul(x, y)
    \/ \E x \in Operands, k \in Extremes : OpScale(x, FromInt(k))
    \/ \E x \in Operands, y \in Operands : OpHadamard(x, y)
    \/ \E x \in Operands, v \in Vec3fInputs : OpMulVec(x, v)
    \/ \E x \in Operands : dumpColumnWise(x)
    \/ \E x \in Operands : getTranslationVec3(x)

Spec == Init /\ [][Next]_vars

\* setUniform over every range low < high.
NextUniform ==
    \E x \in Objs, low \in Vals, high \in Vals, w \in DrawWindows(Len(drawn)) :
        low < high /\ setUniform(x, FromInt(low), FromInt(high), w)

SpecUniform == Init /\ [][NextUniform]_vars

\* The operators applied to constructed matrices.
NextAlgebra ==
    \/ \E x \in Operands : OpTranspose(x)
    \/ \E x \in Operands, y \in Operands : OpMul(x, y)
    \/ \E x \in Operands, v \in Vec3fInputs : OpMulVec(x, v)
    \/ \E x \in Operands : dumpColumnWise(x)
    \/ \E x \in Operands : getTranslationVec3(x)

SpecAlgebra == InitAlgebra /\ [][NextAlgebra]_vars

\* Transforms composed by operator* and applied to vectors.
NextCompose ==
    \/ \E x \in Operands, y \in Operands : OpMul(x, y)
    \/ \E x \in Operands, v \in Vec3fInputs : OpMulVec(x, v)

SpecCompose == InitCompose /\ [][NextCompose]_vars

(***************************************************************************)
(* Properties.                                                             *)
(***************************************************************************)
\* The integer a float holds (the inputs are integers, and integer sums and
\* products below 2^24 are exact in binary32).
IntOf(f) == f.m * Pow2(f.e)

IsInt(f) == f.e >= 0

MatrixOps == {"transpose", "add", "sub", "mul", "scale", "hadamard"}

OperatorOps == MatrixOps \cup {"mulvec", "dump", "getTranslation"}

MutatorOps == {"set", "setZeros", "setOnes", "setIdentity", "setUniform"}

\* (0, 0, 0, 1) in the bottom row.
AffineRow(m) ==
    /\ m[12] = FromInt(0)
    /\ m[13] = FromInt(0)
    /\ m[14] = FromInt(0)
    /\ m[15] = FromInt(1)

\* a and b differ at most in the translation column and the bottom row.
SameBlock(a, b) == \A i \in 0 .. 2, k \in 0 .. 2 : a[i * nC + k] = b[i * nC + k]

\* Order of two binary32 values: the sign of their difference.
FLess(a, b) == FSub(a, b).m < 0

FLeq(a, b) == FSub(a, b).m <= 0

\* C1: after setUniform(low, high) every element e of the matrix satisfies
\* low <= e < high: the upper bound is never produced.
C1_UniformBelowHigh ==
    lastOp.op = "setUniform" =>
        \A o \in Offsets :
            /\ FLeq(lastOp.k, values[lastOp.x][o])
            /\ FLess(values[lastOp.x][o], lastOp.h)

\* C2: the matrix product is associative on integer contents: when operator*
\* has returned R = x * y, then for the contents z of every object
\* R * z = x * (y * z) and z * R = (z * x) * y element by element; and R has
\* output[i][j] = sum over k in 0..3 of a[i][k] * b[k][j].
C2_MulAssociative ==
    lastOp.op = "mul" =>
        LET a == values[lastOp.x]
            b == values[lastOp.y]
            R == values["R"]
        IN  /\ \A i \in Rows, j \in Cols :
                  get(R, i, j)
                      = FromInt(IntOf(a[i * nC]) * IntOf(b[j])
                                + IntOf(a[i * nC + 1]) * IntOf(b[nC + j])
                                + IntOf(a[i * nC + 2]) * IntOf(b[2 * nC + j])
                                + IntOf(a[i * nC + 3]) * IntOf(b[3 * nC + j]))
            /\ \A o \in Objs :
                  LET z == values[o]
                  IN  /\ MatMul(R, z) = MatMul(a, MatMul(b, z))
                      /\ MatMul(z, R) = MatMul(MatMul(z, a), b)

C2_Witness ==
    /\ lastOp.op = "mul"
    /\ \A o \in Offsets : IsInt(values["R"][o])
    /\ MatMul(values["A"], values["B"]) # MatMul(values["B"], values["A"])
    /\ MatMul(values["A"], values["R"]) # MatMul(values["R"], values["A"])
    /\ \E o \in Offsets : IntOf(values["R"][o]) > MaxVal

\* C3: the matrix the default constructor builds, and the one setIdentity
\* leaves, is a two-sided identity of the product: when operator* has returned
\* R = x * y and x (or y) holds the default-constructed matrix, R equals y (or
\* x) element by element; and J * M = M = M * J for the contents M of every
\* object and the matrix J that setIdentity leaves.
C3_IdentityNeutral ==
    lastOp.op = "mul" =>
        LET I == Mat4Init("IDENTITY")
            a == values[lastOp.x]
            b == values[lastOp.y]
            R == values["R"]
        IN  /\ \A i \in Rows, j \in Cols :
                  get(I, i, j) = FromInt(IF i = j THEN 1 ELSE 0)
            /\ a = I => \A i \in Rows, j \in Cols : get(R, i, j) = get(b, i, j)
            /\ b = I => \A i \in Rows, j \in Cols : get(R, i, j) = get(a, i, j)
            /\ \A o \in Objs :
                  LET M == values[o]
                      J == setIdentityValues(M)
                  IN  MatMul(J, M) = M /\ MatMul(M, J) = M

C3_Witness ==
    /\ lastOp.op = "mul"
    /\ values[lastOp.x] = Mat4Init("IDENTITY")
    /\ values[lastOp.y] # Mat4Init("IDENTITY")
    /\ values[lastOp.y] # Transpose(values[lastOp.y])
    /\ values["R"] = values[lastOp.y]

\* C4: the matrix operator~ returned has output[j][i] = input[i][j] for all
\* i, j, and transposing twice gives the matrix back, element by element.
C4_TransposeInvolution ==
    lastOp.op = "transpose" =>
        /\ \A i \in Rows, j \in Cols :
              get(values["R"], j, i) = get(values[lastOp.x], i, j)
        /\ \A i \in Rows, j \in Cols :
              get(Transpose(values["R"]), i, j) = get(values[lastOp.x], i, j)
        /\ \A o \in Objs : Transpose(Transpose(values[o])) = values[o]

C4_Witness ==
    /\ lastOp.op = "transpose"
    /\ values["R"] # values[lastOp.x]
    /\ Transpose(values["R"]) = values[lastOp.x]

\* C5: the vector operator*(v) returned is result[i] = sum over k in 0..2 of
\* M[i][k] * v[k], and an object that differs from M only in the translation
\* column and the bottom row gives the same result, for every v.
C5_MulVecLinearPart ==
    lastOp.op = "mulvec" =>
        LET M == values[lastOp.x]
        IN  /\ \A i \in 0 .. 2 :
                  vec[i] = FromInt(IntOf(get(M, i, 0)) * IntOf(lastOp.v[0])
                                   + IntOf(get(M, i, 1)) * IntOf(lastOp.v[1])
                                   + IntOf(get(M, i, 2)) * IntOf(lastOp.v[2]))
            /\ \A o \in Objs :
                  SameBlock(M, values[o]) =>
                      /\ MulVec(values[o], lastOp.v) = vec
                      /\ \A v \in Vec3fInputs : MulVec(values[o], v) = MulVec(M, v)

C5_Witness ==
    /\ lastOp.op = "mulvec"
    /\ vec # NoVec
    /\ \E y \in Objs :
          /\ SameBlock(values[lastOp.x], values[y])
          /\ \E i \in 0 .. 2 : get(values[lastOp.x], i, 3) # get(values[y], i, 3)
    /\ \E z \in Objs :
          /\ SameBlock(values[lastOp.x], values[z])
          /\ \E j \in Cols : get(values[lastOp.x], 3, j) # get(values[z], 3, j)

\* C6: a matrix built by the translation constructor from (tx, ty, tz) has
\* get(0,3) = tx, get(1,3) = ty, get(2,3) = tz, is the identity elsewhere, and
\* getTranslationVec3 on it returns (tx, ty, tz).
C6_TranslationRoundTrip ==
    \A x \in Operands :
        made[x].kind = "translation" =>
            LET t == made[x].t
                M == values[x]
            IN  /\ get(M, 0, 3) = t.x
                /\ get(M, 1, 3) = t.y
                /\ get(M, 2, 3) = t.z
                /\ \A i \in Rows, j \in Cols :
                      ~(i < 3 /\ j = 3) =>
                          get(M, i, j) = FromInt(IF i = j THEN 1 ELSE 0)
                /\ TranslationVec3(M) = t
                /\ (lastOp.op = "getTranslation" /\ lastOp.x = x) =>
                      (vec[0] = t.x /\ vec[1] = t.y /\ vec[2] = t.z)

C6_Witness ==
    /\ lastOp.op = "getTranslation"
    /\ made[lastOp.x].kind = "translation"
    /\ LET t == made[lastOp.x].t
       IN  /\ t.x # t.y /\ t.y # t.z /\ t.x # t.z
           /\ vec[0] = t.x /\ vec[1] = t.y /\ vec[2] = t.z

\* C7: dumpColumnWise stores get(i, j) at offset i + j * 4 for every i, j,
\* stores to each of the 16 slots exactly once and to no other offset; the
\* buffer then holds the row-major contents of the transpose, and for the
\* identity matrix 1,0,0,0, 0,1,0,0, 0,0,1,0, 0,0,0,1.
C7_DumpColumnMajor ==
    lastOp.op = "dump" =>
        LET M == values[lastOp.x]
        IN  /\ \A i \in Rows, j \in Cols : array[i + j * 4] = get(M, i, j)
            /\ Len(stores) = 16
            /\ \A n \in DOMAIN stores : stores[n][1] \in 0 .. 15
            /\ \A o \in 0 .. 15 :
                  Cardinality({n \in DOMAIN stores : stores[n][1] = o}) = 1
            /\ array = Transpose(M)
            /\ M = Mat4Init("IDENTITY") =>
                  \A o \in 0 .. 15 :
                      array[o] = FromInt(IF o \in {0, 5, 10, 15} THEN 1 ELSE 0)

C7_Witness ==
    /\ lastOp.op = "dump"
    /\ array # values[lastOp.x]
    /\ array[1] = get(values[lastOp.x], 1, 0)
    /\ array[1] # get(values[lastOp.x], 0, 1)

\* C8: right after x is made from y by the copy constructor or by operator=,
\* x equals y element by element; and a set, setZeros, setOnes, setIdentity or
\* setUniform call on one object leaves every element of every other object
\* unchanged.
C8_CopiesIndependent ==
    [][/\ (steps' = steps + 1 /\ lastOp'.op \in {"copy", "assign"}) =>
            \A i \in Rows, j \in Cols :
                get(values'[lastOp'.x], i, j) = get(values'[lastOp'.y], i, j)
       /\ (steps' = steps + 1 /\ lastOp'.op \in MutatorOps) =>
            \A o \in Objs \ {lastOp'.x} : values'[o] = values[o]]_vars

C8_Witness ==
    /\ lastOp.op \in MutatorOps
    /\ \E x \in Objs :
          /\ made[x].kind \in {"copy", "assign"}
          /\ lastOp.x \in {x, made[x].from}
          /\ x # made[x].from
          /\ values[x] # values[made[x].from]

\* C9: a call of an operator (~, +, -, matrix *, matrix x vector *, scalar *,
\* %, dumpColumnWise, getTranslationVec3) leaves all 16 elements of each
\* operand unchanged, also when both operands are the same object; and a
\* mutator call on the matrix an operator returned leaves the operands
\* unchanged.
C9_OperatorsPure ==
    [][/\ (steps' = steps + 1 /\ lastOp'.op \in OperatorOps) =>
            \A x \in Operands : values'[x] = values[x]
       /\ (steps' = steps + 1 /\ lastOp.op \in MatrixOps
              /\ lastOp'.op \in MutatorOps /\ lastOp'.x = "R") =>
            \A x \in Operands : values'[x] = values[x]]_vars

C9_Witness ==
    /\ lastOp.op \in MutatorOps
    /\ lastOp.x = "R"
    /\ made["R"].kind \in {"mul", "sub"}
    /\ values["R"] # values["A"]
    /\ values["A"] = Mat4Init("IDENTITY")

\* An integer of magnitude at most 64.  Products and sums of three such
\* factors over 4 and 3 terms stay below 2^24, so binary32 rounds none.
SmallInt(f) == IsInt(f) /\ Abs(IntOf(f)) <= 64

\* C10 as stated: when operator* has returned R = x * y for x and y whose
\* bottom row is (0, 0, 0, 1), then R * v = x * (y * v) for every v.
C10_ComposeExact ==
    (lastOp.op = "mul" /\ AffineRow(values[lastOp.x]) /\ AffineRow(values[lastOp.y])) =>
        \A v \in Vec3fInputs :
            MulVec(values["R"], v)
                = MulVec(values[lastOp.x], MulVec(values[lastOp.y], v))

\* C10 (amended): when operator* has returned R = x * y for x and y whose
\* bottom row is (0, 0, 0, 1) and whose elements are integers of magnitude at
\* most 64, then R * v = x * (y * v) for every v with such elements: the left
\* operand is applied after the right one.
C10_ComposeThenApply ==
    (/\ lastOp.op = "mul"
     /\ AffineRow(values[lastOp.x])
     /\ AffineRow(values[lastOp.y])
     /\ \A o \in Offsets : SmallInt(values[lastOp.x][o]) /\ SmallInt(values[lastOp.y][o])) =>
        \A v \in Vec3fInputs :
            (\A k \in 0 .. 2 : SmallInt(v[k])) =>
                MulVec(values["R"], v)
                    = MulVec(values[lastOp.x], MulVec(values[lastOp.y], v))

C10_Witness ==
    /\ lastOp.op = "mul"
    /\ AffineRow(values[lastOp.x])
    /\ AffineRow(values[lastOp.y])
    /\ \A o \in Offsets : SmallInt(values[lastOp.x][o]) /\ SmallInt(values[lastOp.y][o])
    /\ \E v \in Vec3fInputs :
          /\ \A k \in 0 .. 2 : SmallInt(v[k])
          /\ MulVec(values["R"], v)
                = MulVec(values[lastOp.x], MulVec(values[lastOp.y], v))
          /\ MulVec(values["R"], v)
                # MulVec(values[lastOp.y], MulVec(values[lastOp.x], v))
====
